---- MODULE Spec2Model ----
(***************************************************************************)
(* Model of cpyp::crp<Dish> (src/cpyp/crp.h): a Pitman-Yor Chinese          *)
(* restaurant with histogram-based table tracking.                          *)
(*                                                                          *)
(* Real numbers (discount, strength, p0) are fixed-point integers in units  *)
(* of 1/ONE, with one extra value DBL_MIN standing for the smallest         *)
(* positive normal double.  The per-dish crp_table_manager, the slice       *)
(* sampler and the random source are collaborators whose code is not in     *)
(* src/; they are modelled from their contracts.                            *)
(***************************************************************************)
EXTENDS Integers, FiniteSets, Sequences, Bags, TLC

VARIABLES
    num_tables_,          \* unsigned num_tables_
    num_customers_,       \* unsigned num_customers_
    dish_locs_,           \* unordered_map<Dish, crp_table_manager>
    discount_,            \* double discount_ (fixed point)
    strength_,            \* double strength_ (fixed point)
    has_discount_prior,   \* !isnan(discount_prior_strength_)
    has_strength_prior,   \* !isnan(strength_prior_shape_)
    ndebug,               \* build: TRUE when assert() is compiled out (NDEBUG)
    aborted,              \* the process has called abort() or crashed
    pc,                   \* position inside resample_hyperparameters, or "idle"
    iter,                 \* loop counter of resample_hyperparameters
    nloop,                \* argument nloop of the running resample_hyperparameters
    seated,               \* ghost: customers truly seated per dish (net effect of the calls)
    last                  \* ghost: the last call, its arguments, result and pre-state

vars == <<num_tables_, num_customers_, dish_locs_, discount_, strength_,
          has_discount_prior, has_strength_prior, ndebug, aborted,
          pc, iter, nloop, seated, last>>

----------------------------------------------------------------------------
(* Bounds of the model *)

MaxCustomers == 3      \* increments are offered while fewer customers are seated
MaxLoops == 1          \* largest nloop passed to resample_hyperparameters

(* Number representation *)

ONE == 8               \* the double 1.0
DBL_MIN == 1           \* std::numeric_limits<double>::min()
HALF == ONE \div 2
QUARTER == ONE \div 4
INFINITY == 2 * ONE    \* stands for +infinity as an upper bound

Dishes == {"a", "b"}

\* arguments offered to the constructor and the setters
HyperArgs == {-QUARTER, 0, HALF, ONE}
\* base probabilities offered to increment and prob
P0Args == {0, ONE}
\* values a slice sampler run may return
SampleValues == {-HALF, -QUARTER, 0, DBL_MIN, HALF, ONE}

\* unsigned arithmetic is modular; the modulus is 2^16 here instead of 2^32
\* so that every value stays inside TLC's integers
UINT_MOD == 2^16
UInc(x) == (x + 1) % UINT_MOD
UDec(x) == (x - 1) % UINT_MOD

\* x + DBL_MIN in double arithmetic: absorbed unless x is 0 or of DBL_MIN size
PlusDblMin(x) == IF x \in {-DBL_MIN, 0} THEN x + DBL_MIN ELSE x

----------------------------------------------------------------------------
(* crp_table_manager: per-dish histogram  size of table -> number of tables *)

EmptyManager == [customers |-> 0, tables |-> 0, h |-> EmptyBag]

create_table(loc) ==
    [customers |-> loc.customers + 1,
     tables    |-> loc.tables + 1,
     h         |-> loc.h (+) SetToBag({1})]

\* the table sizes share_table may pick: weight (size - discount) * count > 0
share_table_choices(loc, discount) ==
    LET pos == {k \in BagToSet(loc.h) : k * ONE - discount > 0}
    IN  IF pos = {} THEN BagToSet(loc.h) ELSE pos

share_table(loc, k) ==
    [customers |-> loc.customers + 1,
     tables    |-> loc.tables,
     h         |-> (loc.h (-) SetToBag({k})) (+) SetToBag({k + 1})]

\* the table sizes remove_customer may pick: weight size * count
remove_customer_choices(loc) == BagToSet(loc.h)

remove_customer(loc, k) ==
    [loc   |-> [customers |-> loc.customers - 1,
                tables    |-> IF k = 1 THEN loc.tables - 1 ELSE loc.tables,
                h         |-> IF k = 1 THEN loc.h (-) SetToBag({1})
                              ELSE (loc.h (-) SetToBag({k})) (+) SetToBag({k - 1})],
     delta |-> IF k = 1 THEN -1 ELSE 0]

\* sample_bernoulli(a, b): TRUE with probability b / (a + b)
sample_bernoulli(a, b) ==
    LET out == {x \in BOOLEAN : IF x THEN b > 0 ELSE a > 0}
    IN  IF out = {} THEN BOOLEAN ELSE out

\* slice_sampler1d: some value within the bounds it was given
slice_sampler1d(lo, hi) == {x \in SampleValues : lo <= x /\ x <= hi}

----------------------------------------------------------------------------
(* std::unordered_map operations; each gives the map after the call *)

\* operator[]: inserts a default-constructed entry when the key is absent
Subscript(m, d) == IF d \in DOMAIN m THEN m ELSE m @@ (d :> EmptyManager)

\* faulty find: a lookup through operator[]
FindInserting(m, d) == IF d \in DOMAIN m THEN m ELSE m @@ (d :> EmptyManager)
\* find: never changes the map
Find(m, d) == m

\* faulty erase: empties the entry and keeps the key
EraseKeepsEntry(m, d) == [x \in DOMAIN m |-> IF x = d THEN EmptyManager ELSE m[x]]
\* erase(key)
Erase(m, d) == [x \in DOMAIN m \ {d} |-> m[x]]

EmptyMap == [x \in {} |-> EmptyManager]

----------------------------------------------------------------------------
(* Helpers *)

RECURSIVE SumOver(_, _, _)
\* sum over the dishes in S of num_customers() or num_tables()
SumOver(m, S, field) ==
    IF S = {} THEN 0
    ELSE LET d == CHOOSE x \in S : TRUE
         IN  (IF field = "customers" THEN m[d].customers ELSE m[d].tables)
             + SumOver(m, S \ {d}, field)

SumCustomers(m) == SumOver(m, DOMAIN m, "customers")
SumTables(m)    == SumOver(m, DOMAIN m, "tables")

RECURSIVE SumSeated(_, _)
SumSeated(f, S) ==
    IF S = {} THEN 0
    ELSE LET d == CHOOSE x \in S : TRUE IN f[d] + SumSeated(f, S \ {d})

TotalSeated == SumSeated(seated, Dishes)

\* the restaurant's data members, as seen by a caller
Snap == [num_tables    |-> num_tables_,
         num_customers |-> num_customers_,
         dish_locs     |-> dish_locs_]

\* the hyperparameters before a call
Hyper == <<discount_, strength_>>

\* the hyperpriors present
Priors == <<has_discount_prior, has_strength_prior>>

NoVal == [num |-> 0, den |-> 1]

\* record of a call: name, dish, numeric arguments, int result, real result,
\* seating before the call, hyperparameters before the call (not kept for the
\* calls that overwrite them from their arguments), (for a decrement that directly follows the first
\* increment of the same dish) the state before that increment, and (for
\* resample_hyperparameters) the slice_sampler1d calls made so far; for an
\* increment, whether it drew the share/new-table choice and whether it
\* directly follows clear(); the hyperpriors present before the call
Setters == {"crp", "set_hyperparameters", "set_discount", "set_strength"}

Call(op, dish, a1, a2, ret, val, undo) ==
    [op |-> op, dish |-> dish, a1 |-> a1, a2 |-> a2, ret |-> ret, val |-> val,
     pre |-> Snap, hyper |-> IF op \in Setters THEN <<>> ELSE Hyper,
     undo |-> undo, calls |-> 0, drew |-> FALSE, after_clear |-> FALSE,
     priors |-> Priors]

----------------------------------------------------------------------------
(* crp: hyperparameters *)

\* faulty check: strength == -discount accepted
check_hyperparameters_strict(d, s) == d < 0 \/ d >= ONE \/ s < -d
\* check_hyperparameters(): TRUE when it calls abort()
check_hyperparameters(d, s) == d < 0 \/ d >= ONE \/ s <= -d

\* crp(disc, strength) and crp(d_strength, d_beta, c_shape, c_rate, d, c)
Init ==
    \E d \in HyperArgs, s \in HyperArgs, dp \in BOOLEAN, sp \in BOOLEAN, nd \in BOOLEAN :
        /\ num_tables_ = 0
        /\ num_customers_ = 0
        /\ dish_locs_ = EmptyMap
        /\ discount_ = d
        /\ strength_ = s
        /\ has_discount_prior = dp
        /\ has_strength_prior = sp
        /\ ndebug = nd
        /\ aborted = check_hyperparameters(d, s)
        /\ pc = "idle"
        /\ iter = 0
        /\ nloop = 0
        /\ seated = [x \in Dishes |-> 0]
        /\ last = [op |-> "crp", dish |-> "a", a1 |-> d, a2 |-> s, ret |-> 0,
                   val |-> NoVal,
                   pre |-> [num_tables |-> 0, num_customers |-> 0,
                            dish_locs |-> EmptyMap],
                   hyper |-> <<>>, undo |-> <<>>, calls |-> 0, drew |-> FALSE,
                   after_clear |-> FALSE, priors |-> <<dp, sp>>]

Live == pc = "idle" /\ ~aborted

set_hyperparameters(d, s) ==
    /\ Live
    /\ discount_' = d
    /\ strength_' = s
    /\ aborted' = check_hyperparameters(d, s)
    /\ last' = Call("set_hyperparameters", "a", d, s, 0, NoVal, <<>>)
    /\ UNCHANGED <<num_tables_, num_customers_, dish_locs_, has_discount_prior,
                   has_strength_prior, ndebug, pc, iter, nloop, seated>>

set_discount(d) ==
    /\ Live
    /\ discount_' = d
    /\ aborted' = check_hyperparameters(d, strength_)
    /\ last' = Call("set_discount", "a", d, 0, 0, NoVal, <<>>)
    /\ UNCHANGED <<num_tables_, num_customers_, dish_locs_, strength_,
                   has_discount_prior, has_strength_prior, ndebug, pc, iter,
                   nloop, seated>>

set_strength(a) ==
    /\ Live
    /\ strength_' = a
    /\ aborted' = check_hyperparameters(discount_, a)
    /\ last' = Call("set_strength", "a", a, 0, 0, NoVal, <<>>)
    /\ UNCHANGED <<num_tables_, num_customers_, dish_locs_, discount_,
                   has_discount_prior, has_strength_prior, ndebug, pc, iter,
                   nloop, seated>>

\* faulty clear: num_tables_ not reset
clear_state_keeps_tables ==
    [num_tables |-> num_tables_, num_customers |-> 0, dish_locs |-> EmptyMap]
\* the seating clear() leaves
clear_state ==
    [num_tables |-> 0, num_customers |-> 0, dish_locs |-> EmptyMap]

clear ==
    /\ Live
    /\ num_tables_' = clear_state.num_tables
    /\ num_customers_' = clear_state.num_customers
    /\ dish_locs_' = clear_state.dish_locs
    /\ seated' = [x \in Dishes |-> 0]
    /\ last' = Call("clear", "a", 0, 0, 0, NoVal, <<>>)
    /\ UNCHANGED <<discount_, strength_, has_discount_prior, has_strength_prior,
                   ndebug, aborted, pc, iter, nloop>>

----------------------------------------------------------------------------
(* crp: seating *)

\* faulty weight: the tables left out
p_empty_without_tables(nt, discount, strength, p0) == strength * p0
\* F(strength_ + num_tables_ * discount_) * p0, in units of 1/ONE^2
p_empty(nt, discount, strength, p0) == (strength + nt * discount) * p0
\* F(loc.num_customers() - loc.num_tables() * discount_), in units of 1/ONE
p_share(loc, discount) == loc.customers * ONE - loc.tables * discount

\* the values share_table can take in increment(dish, p0, eng)
increment_choices(nt, locs, discount, strength, dish, p0) ==
    LET loc == Subscript(locs, dish)[dish]
    IN  IF loc.customers # 0
        THEN sample_bernoulli(p_empty(nt, discount, strength, p0), p_share(loc, discount))
        ELSE {FALSE}

\* faulty return: the two values exchanged
increment_ret_swapped(share) == IF share THEN 1 ELSE 0
\* return (share_table ? 0 : 1)
increment_ret(share) == IF share THEN 0 ELSE 1

\* if (loc.num_customers()): whether increment draws the choice at all
increment_draws(locs, dish) == Subscript(locs, dish)[dish].customers # 0

\* faulty updates: ++num_tables_ on every path, or on none
inc_num_tables_always(nt, share) == UInc(nt)
inc_num_tables_never(nt, share) == nt
\* ++num_tables_ of the create_table branch
inc_num_tables(nt, share) == IF share THEN nt ELSE UInc(nt)

\* a deterministic random stream: "share" answers share and "new"
\* answers open-a-table whenever that answer has positive weight; "any" is an
\* arbitrary stream
Draw(stream, S) ==
    IF stream = "share" /\ TRUE \in S THEN {TRUE}
    ELSE IF stream = "new" /\ FALSE \in S THEN {FALSE}
    ELSE S

\* increment, once share_table and the table picked by share_table are known
increment(nt, nc, locs, dish, share, k) ==
    LET locs1 == Subscript(locs, dish)
        loc   == locs1[dish]
    IN  [dish_locs     |-> [locs1 EXCEPT ![dish] =
                               IF share THEN share_table(loc, k) ELSE create_table(loc)],
         num_tables    |-> inc_num_tables(nt, share),
         num_customers |-> UInc(nc),
         ret           |-> increment_ret(share)]

IncrementWith(dish, p0, stream) ==
    /\ Live
    /\ TotalSeated < MaxCustomers
    /\ \E share \in (IF increment_draws(dish_locs_, dish)
                     THEN Draw(stream, increment_choices(num_tables_, dish_locs_, discount_,
                                                         strength_, dish, p0))
                     ELSE increment_choices(num_tables_, dish_locs_, discount_,
                                            strength_, dish, p0)) :
       \E k \in (IF share
                 THEN share_table_choices(Subscript(dish_locs_, dish)[dish], discount_)
                 ELSE {0}) :
          LET r == increment(num_tables_, num_customers_, dish_locs_, dish, share, k)
          IN  /\ dish_locs_' = r.dish_locs
              /\ num_tables_' = r.num_tables
              /\ num_customers_' = r.num_customers
              /\ last' = [Call("increment", dish, p0, 0, r.ret, NoVal, <<>>)
                              EXCEPT !.drew = increment_draws(dish_locs_, dish),
                                     !.after_clear = (last.op = "clear")]
    /\ seated' = [seated EXCEPT ![dish] = @ + 1]
    /\ UNCHANGED <<discount_, strength_, has_discount_prior, has_strength_prior,
                   ndebug, aborted, pc, iter, nloop>>

\* increment with an arbitrary random stream
Increment(dish, p0) == IncrementWith(dish, p0, "any")

\* faulty updates: the table counter never, or always, decremented
dec_num_tables_never(nt, delta) == nt
dec_num_tables_always(nt, delta) == UDec(nt)
\* if (delta) --num_tables_
dec_num_tables(nt, delta) == IF delta # 0 THEN UDec(nt) ELSE nt

\* faulty last-customer branch: the table counter kept, or decremented twice
dec_last_tables_kept(nt) == nt
dec_last_tables_twice(nt) == UDec(UDec(nt))
\* --num_tables_ of the last-customer branch
dec_last_tables(nt) == UDec(nt)

\* the else branch of decrement: the removal left to the histogram; r is what
\* loc.remove_customer(eng) gives
decrement_general(nt, nc, locs, dish, r) ==
    LET locs1 == Subscript(locs, dish)
    IN  [dish_locs     |-> [locs1 EXCEPT ![dish] = r.loc],
         num_tables    |-> dec_num_tables(nt, r.delta),
         num_customers |-> UDec(nc),
         ret           |-> r.delta]

\* decrement after its assert; r is what loc.remove_customer(eng) would give
decrement(nt, nc, locs, dish, r) ==
    LET locs1 == Subscript(locs, dish)
        loc   == locs1[dish]
    IN  IF loc.customers = 1
        THEN [dish_locs     |-> Erase(locs1, dish),
              num_tables    |-> dec_last_tables(nt),
              num_customers |-> UDec(nc),
              ret           |-> -1]
        ELSE decrement_general(nt, nc, locs, dish, r)

\* remove_customer on a manager that holds no customer has no contract: it may
\* crash, or return either signal
remove_customer_empty(loc) ==
    {[loc |-> loc, delta |-> dl, crash |-> c] : dl \in {0, -1}, c \in BOOLEAN}

\* the outcomes of loc.remove_customer(eng) for the entry decrement looks at
remove_outcomes(loc) ==
    IF loc.customers = 0 THEN remove_customer_empty(loc)
    ELSE {[loc |-> remove_customer(loc, k).loc, delta |-> remove_customer(loc, k).delta,
           crash |-> FALSE] : k \in remove_customer_choices(loc)}

\* the state before the increment that this decrement undoes, if the last call
\* was the first increment of the same dish
UndoOf(dish) ==
    IF last.op = "increment" /\ last.dish = dish /\ dish \notin DOMAIN last.pre.dish_locs
    THEN <<[pre |-> last.pre, ret |-> last.ret]>> ELSE <<>>

Decrement(dish) ==
    /\ Live
    /\ LET locs1 == Subscript(dish_locs_, dish)
           loc   == locs1[dish]
       IN  IF loc.customers = 0 /\ ~ndebug
           THEN \* assert(loc.num_customers()) fails
                /\ aborted' = TRUE
                /\ dish_locs_' = locs1
                /\ last' = Call("decrement", dish, 0, 0, 0, NoVal, UndoOf(dish))
                /\ UNCHANGED <<num_tables_, num_customers_, seated>>
           ELSE \E r \in remove_outcomes(loc) :
                IF loc.customers # 1 /\ r.crash
                THEN /\ aborted' = TRUE
                     /\ dish_locs_' = locs1
                     /\ last' = Call("decrement", dish, 0, 0, 0, NoVal, UndoOf(dish))
                     /\ UNCHANGED <<num_tables_, num_customers_, seated>>
                ELSE LET res == decrement(num_tables_, num_customers_, dish_locs_, dish, r)
                     IN  /\ dish_locs_' = res.dish_locs
                         /\ num_tables_' = res.num_tables
                         /\ num_customers_' = res.num_customers
                         /\ last' = Call("decrement", dish, 0, 0, res.ret, NoVal, UndoOf(dish))
                         /\ seated' = [seated EXCEPT ![dish] = IF @ > 0 THEN @ - 1 ELSE 0]
                         /\ UNCHANGED aborted
    /\ UNCHANGED <<discount_, strength_, has_discount_prior, has_strength_prior,
                   ndebug, pc, iter, nloop>>

\* a call of decrement whose behaviour the code defines: the dish is seated, or
\* the assert is compiled in
DecrementChecked(dish) ==
    /\ Subscript(dish_locs_, dish)[dish].customers > 0 \/ ~ndebug
    /\ Decrement(dish)

\* a call of decrement on an absent dish in a build without asserts, offered
\* while no earlier such call has upset the counters
DecrementUnchecked(dish) ==
    /\ dish \notin DOMAIN dish_locs_ /\ ndebug
    /\ num_customers_ = SumCustomers(dish_locs_)
    /\ \A d \in DOMAIN dish_locs_ : dish_locs_[d].customers > 0
    /\ Decrement(dish)

----------------------------------------------------------------------------
(* crp: queries *)

\* num_tables(dish)
num_tables_dish(locs, dish) ==
    LET it == Find(locs, dish)
    IN  IF dish \notin DOMAIN it THEN 0 ELSE it[dish].tables

\* num_customers(dish)
num_customers_dish(locs, dish) ==
    LET it == Find(locs, dish)
    IN  IF dish \notin DOMAIN it THEN 0 ELSE it[dish].customers

\* prob(dish, p0) as the fraction num / den, both in units of 1/ONE^2;
\* den = 0 is a division by zero
prob(nt, nc, locs, discount, strength, dish, p0) ==
    LET it == Find(locs, dish)
        r  == nt * discount + strength
    IN  IF dish \notin DOMAIN it
        THEN [num |-> r * p0,
              den |-> (nc * ONE + strength) * ONE]
        ELSE [num |-> (it[dish].customers * ONE - discount * it[dish].tables) * ONE
                       + r * p0,
              den |-> (nc * ONE + strength) * ONE]

Query(op, dish, a1, ret, val) ==
    /\ Live
    /\ dish_locs_' = Find(dish_locs_, dish)
    /\ last' = Call(op, dish, a1, 0, ret, val, <<>>)
    /\ UNCHANGED <<num_tables_, num_customers_, discount_, strength_,
                   has_discount_prior, has_strength_prior, ndebug, aborted,
                   pc, iter, nloop, seated>>

NumTables == 
    /\ Live
    /\ last' = Call("num_tables", "a", 0, 0, num_tables_, NoVal, <<>>)
    /\ UNCHANGED <<num_tables_, num_customers_, dish_locs_, discount_, strength_,
                   has_discount_prior, has_strength_prior, ndebug, aborted,
                   pc, iter, nloop, seated>>

NumCustomers == 
    /\ Live
    /\ last' = Call("num_customers", "a", 0, 0, num_customers_, NoVal, <<>>)
    /\ UNCHANGED <<num_tables_, num_customers_, dish_locs_, discount_, strength_,
                   has_discount_prior, has_strength_prior, ndebug, aborted,
                   pc, iter, nloop, seated>>

NumTablesDish(dish) ==
    Query("num_tables(dish)", dish, 0, num_tables_dish(dish_locs_, dish), NoVal)

NumCustomersDish(dish) ==
    Query("num_customers(dish)", dish, 0, num_customers_dish(dish_locs_, dish), NoVal)

Prob(dish, p0) ==
    Query("prob", dish, p0, 0,
          prob(num_tables_, num_customers_, dish_locs_, discount_, strength_, dish, p0))

----------------------------------------------------------------------------
(* crp: log_likelihood.  The value is kept as the terms the code adds up: a *)
(* term c * f(n/d + k) has a coefficient c, a function f, fixed-point n and *)
(* d, and a count k.                                                         *)

Term(c, f, n, d, k) == [c |-> c, f |-> f, n |-> n, d |-> d, k |-> k]

\* Md::log_beta_density(discount, ..) and Md::log_gamma_density(strength + discount, ..)
prior_terms(discount, strength, priors) ==
    (IF priors[1] THEN {<<"log_beta_density", discount>>} ELSE {})
    \cup (IF priors[2] THEN {<<"log_gamma_density", strength + discount>>} ELSE {})

\* faulty guard: the seating terms added to an empty restaurant too
restaurant_not_empty_always(nc) == TRUE
\* if (num_customers_)
restaurant_not_empty(nc) == nc # 0

\* two parameter case: the terms added before the loop over the dishes
pyp_base_terms(discount, strength, nt, nc) ==
    (IF strength # 0
     THEN <<Term(1, "lgamma", strength, ONE, 0), Term(-1, "lgamma", strength, discount, 0)>>
     ELSE <<>>)
    \o <<Term(-1, "lgamma", strength, ONE, nc),
         Term(nt, "log", discount, ONE, 0),
         Term(1, "lgamma", strength, discount, nt)>>

\* two parameter case: (lgamma(bin.first - discount) - r) * bin.second per bin
pyp_dish_terms(loc, discount) ==
    UNION {{Term(CopiesIn(k, loc.h), "lgamma", -discount, ONE, k),
            Term(-CopiesIn(k, loc.h), "lgamma", ONE - discount, ONE, 0)} :
           k \in BagToSet(loc.h)}

\* Dirichlet process case: the terms added before the loop over the dishes
dp_base_terms(strength, nt, nc) ==
    <<Term(1, "lgamma", strength, ONE, 0),
      Term(nt, "log", strength, ONE, 0),
      Term(-1, "lgamma", strength, ONE, nt)>>

\* Dirichlet process case: lgamma(dish_loc.second.num_tables())
dp_dish_terms(loc) == {Term(1, "lgamma", 0, ONE, loc.tables)}

NoDishTerms == [x \in {} |-> {}]

\* log_likelihood(discount, strength): the prior terms, the seating terms, and
\* whether the "should never happen" branch was taken
log_likelihood(discount, strength, nt, nc, locs, priors) ==
    LET lp == prior_terms(discount, strength, priors)
    IN  IF ~restaurant_not_empty(nc)
        THEN [prior |-> lp, base |-> <<>>, dishes |-> NoDishTerms, negative |-> FALSE]
        ELSE IF discount > 0
        THEN [prior |-> lp, base |-> pyp_base_terms(discount, strength, nt, nc),
              dishes |-> [x \in DOMAIN locs |-> pyp_dish_terms(locs[x], discount)],
              negative |-> FALSE]
        ELSE IF discount = 0
        THEN [prior |-> lp, base |-> dp_base_terms(strength, nt, nc),
              dishes |-> [x \in DOMAIN locs |-> dp_dish_terms(locs[x])],
              negative |-> FALSE]
        ELSE [prior |-> lp, base |-> <<>>, dishes |-> NoDishTerms, negative |-> TRUE]

\* std::isfinite of one term: lgamma has poles at 0, -1, -2, ..; log is
\* -infinity at 0 and NaN below
term_finite(t) ==
    IF t.d = 0 THEN FALSE
    ELSE IF t.f = "lgamma"
    THEN ~(t.n % t.d = 0 /\ (t.n \div t.d) + t.k <= 0)
    ELSE (t.d > 0 /\ t.n + t.k * t.d > 0) \/ (t.d < 0 /\ t.n + t.k * t.d < 0)

\* what the sum of the prior log-densities can be
PriorValues(priors) ==
    IF priors[1] \/ priors[2] THEN {"nonpositive", "positive", "nonfinite"} ELSE {"zero"}

\* assert(lp <= 0.0), assert(!"discount less than 0 detected!") and
\* assert(std::isfinite(lp)) all hold
log_likelihood_asserts(v, pv) ==
    /\ pv \in {"zero", "nonpositive"}
    /\ ~v.negative
    /\ \A i \in 1..Len(v.base) : term_finite(v.base[i])
    /\ \A x \in DOMAIN v.dishes : \A t \in v.dishes[x] : term_finite(t)

\* log_likelihood()
LogLikelihood ==
    /\ Live
    /\ LET v == log_likelihood(discount_, strength_, num_tables_, num_customers_,
                               dish_locs_, Priors)
       IN  /\ \E pv \in PriorValues(Priors) :
                 aborted' = (~ndebug /\ ~log_likelihood_asserts(v, pv))
           /\ last' = Call("log_likelihood", "a", 0, 0, 0, v, <<>>)
    /\ UNCHANGED <<num_tables_, num_customers_, dish_locs_, discount_, strength_,
                   has_discount_prior, has_strength_prior, ndebug, pc, iter,
                   nloop, seated>>

----------------------------------------------------------------------------
(* crp: resample_hyperparameters(eng, nloop, niterations) *)

\* lower bound of the strength draws inside the loop
strength_lower(discount) == PlusDblMin(-discount)

\* min_discount of the discount draw
min_discount(strength) == IF strength < 0 THEN PlusDblMin(-strength) ELSE DBL_MIN

\* faulty loop test: one iteration too many
loop_continues_inclusive(i, n) == i <= n
\* iter < nloop
loop_continues(i, n) == i < n

\* the record of a run that goes on to draw new hyperparameters does not keep
\* the old ones
ResampleBegin(n) ==
    /\ Live
    /\ iter' = 0
    /\ IF ~(has_discount_prior \/ has_strength_prior) /\ ~ndebug
       THEN \* assert(has_discount_prior() || has_strength_prior()) fails
            /\ aborted' = TRUE
            /\ last' = Call("resample_hyperparameters", "a", n, 0, 0, NoVal, <<>>)
            /\ UNCHANGED <<pc, nloop>>
       ELSE IF num_customers_ = 0
       THEN /\ last' = Call("resample_hyperparameters", "a", n, 0, 0, NoVal, <<>>)
            /\ UNCHANGED <<aborted, pc, nloop>>
       ELSE /\ pc' = IF loop_continues(0, n) THEN "strength" ELSE "final"
            /\ nloop' = n
            /\ last' = [Call("resample_hyperparameters", "a", n, 0, 0, NoVal, <<>>)
                            EXCEPT !.hyper = <<>>]
            /\ UNCHANGED aborted
    /\ UNCHANGED <<num_tables_, num_customers_, dish_locs_, discount_, strength_,
                   has_discount_prior, has_strength_prior, ndebug, seated>>

ResampleStrength ==
    /\ pc = "strength" /\ ~aborted
    /\ IF has_strength_prior
       THEN /\ strength_' \in slice_sampler1d(strength_lower(discount_), INFINITY)
            /\ last' = [last EXCEPT !.calls = @ + 1]
       ELSE UNCHANGED <<strength_, last>>
    /\ pc' = "discount"
    /\ UNCHANGED <<num_tables_, num_customers_, dish_locs_, discount_,
                   has_discount_prior, has_strength_prior, ndebug, aborted,
                   iter, nloop, seated>>

ResampleDiscount ==
    /\ pc = "discount" /\ ~aborted
    /\ IF has_discount_prior
       THEN /\ discount_' \in slice_sampler1d(min_discount(strength_), ONE)
            /\ last' = [last EXCEPT !.calls = @ + 1]
       ELSE UNCHANGED <<discount_, last>>
    /\ iter' = iter + 1
    /\ pc' = IF loop_continues(iter + 1, nloop) THEN "strength" ELSE "final"
    /\ UNCHANGED <<num_tables_, num_customers_, dish_locs_, strength_,
                   has_discount_prior, has_strength_prior, ndebug, aborted,
                   nloop, seated>>

ResampleFinal ==
    /\ pc = "final" /\ ~aborted
    /\ strength_' \in slice_sampler1d(-discount_, INFINITY)
    /\ last' = [last EXCEPT !.calls = @ + 1]
    /\ pc' = "idle"
    /\ iter' = 0
    /\ nloop' = 0
    /\ UNCHANGED <<num_tables_, num_customers_, dish_locs_, discount_,
                   has_discount_prior, has_strength_prior, ndebug, aborted,
                   seated>>

----------------------------------------------------------------------------
(* Specifications *)

Next ==
    \/ \E d \in HyperArgs, s \in HyperArgs : set_hyperparameters(d, s)
    \/ \E d \in HyperArgs : set_discount(d)
    \/ \E a \in HyperArgs : set_strength(a)
    \/ clear
    \/ \E dish \in Dishes, p0 \in P0Args : Increment(dish, p0)
    \/ \E dish \in Dishes : DecrementChecked(dish)
    \/ NumTables
    \/ NumCustomers
    \/ \E dish \in Dishes : NumTablesDish(dish)
    \/ \E dish \in Dishes : NumCustomersDish(dish)
    \/ \E dish \in Dishes, p0 \in P0Args : Prob(dish, p0)
    \/ LogLikelihood
    \/ \E n \in 0..MaxLoops : ResampleBegin(n)
    \/ ResampleStrength
    \/ ResampleDiscount
    \/ ResampleFinal

\* every call whose behaviour the code defines
Spec == Init /\ [][Next]_vars

NextUnchecked == Next \/ \E dish \in Dishes : DecrementUnchecked(dish)

\* also decrement on an absent dish in a build without asserts
SpecUnchecked == Init /\ [][NextUnchecked]_vars

\* the restaurant driven by a stream that answers "share" whenever a choice
\* is drawn
NextShare ==
    \/ \E dish \in Dishes, p0 \in P0Args : IncrementWith(dish, p0, "share")
    \/ clear
    \/ NumTables
    \/ NumCustomers

SpecShare == Init /\ [][NextShare]_vars

\* the restaurant driven, with p0 = 1, by a stream that answers "open a new
\* table" whenever a choice is drawn
NextNew ==
    \/ \E dish \in Dishes : IncrementWith(dish, ONE, "new")
    \/ \E dish \in Dishes : DecrementChecked(dish)
    \/ NumTables
    \/ NumCustomers

SpecNew == Init /\ [][NextNew]_vars

\* the calls that change the restaurant, without the queries; a running
\* resample_hyperparameters is a loop of the calling thread, so each of its
\* steps is taken once it is reached
NextResample ==
    \/ \E d \in HyperArgs, s \in HyperArgs : set_hyperparameters(d, s)
    \/ clear
    \/ \E dish \in Dishes, p0 \in P0Args : Increment(dish, p0)
    \/ \E dish \in Dishes : DecrementChecked(dish)
    \/ \E n \in 0..MaxLoops : ResampleBegin(n)
    \/ ResampleStrength
    \/ ResampleDiscount
    \/ ResampleFinal

SpecResample ==
    /\ Init /\ [][NextResample]_vars
    /\ WF_vars(ResampleStrength) /\ WF_vars(ResampleDiscount) /\ WF_vars(ResampleFinal)

----------------------------------------------------------------------------
(* Properties *)

CustomersOf(m, d) == IF d \in DOMAIN m THEN m[d].customers ELSE 0
TablesOf(m, d)    == IF d \in DOMAIN m THEN m[d].tables ELSE 0

\* C1: in every state reached by increment, decrement of a seated dish, clear
\* and resample_hyperparameters, num_customers() is the sum of the per-dish
\* customer counts and num_tables() the sum of the per-dish table counts.
C1_CountersAreSums ==
    /\ num_customers_ = SumCustomers(dish_locs_)
    /\ num_tables_ = SumTables(dish_locs_)

C1_Witness ==
    /\ last.op = "decrement" /\ last.ret = 0 /\ ~aborted
    /\ Cardinality(DOMAIN dish_locs_) = 2
    /\ num_customers_ = 2

\* C2: every dish entry has 1 <= tables <= customers, num_tables() <=
\* num_customers(), and no decrement takes a counter below zero.
C2_TablesBoundedByCustomers ==
    /\ ~aborted => \A d \in DOMAIN dish_locs_ :
           1 <= dish_locs_[d].tables /\ dish_locs_[d].tables <= dish_locs_[d].customers
    /\ num_tables_ <= num_customers_
    /\ (last.op = "decrement" /\ ~aborted) =>
           /\ last.pre.num_customers >= 1
           /\ last.ret = -1 => last.pre.num_tables >= 1

C2_Witness ==
    /\ last.op = "decrement" /\ last.ret = -1 /\ ~aborted
    /\ \E d \in DOMAIN dish_locs_ : dish_locs_[d].tables < dish_locs_[d].customers

\* C3: after every call that returns normally a dish is in the dish map iff
\* it has a seated customer; the first increment creates the entry, and the
\* decrement of a dish's last customer erases it and returns -1.
C3_DishPresentIffSeated ==
    Live =>
        /\ \A d \in Dishes :
              /\ d \in DOMAIN dish_locs_ <=> seated[d] >= 1
              /\ CustomersOf(dish_locs_, d) = seated[d]
        /\ last.op = "increment" => last.dish \in DOMAIN dish_locs_
        /\ (last.op = "decrement" /\ CustomersOf(last.pre.dish_locs, last.dish) = 1) =>
              last.ret = -1 /\ last.dish \notin DOMAIN dish_locs_

C3_Witness ==
    /\ Live
    /\ last.op = "decrement" /\ last.ret = -1
    /\ last.dish \notin DOMAIN dish_locs_
    /\ DOMAIN dish_locs_ # {}

\* C4: the value increment or decrement returns is the change it made to
\* num_tables() and to the dish's table count; increment adds exactly one to
\* num_customers() and to the dish's customer count, decrement takes one away.
C4_ReturnIsTableDelta ==
    /\ last.op = "increment" =>
          /\ last.ret \in {0, 1}
          /\ num_tables_ = last.pre.num_tables + last.ret
          /\ TablesOf(dish_locs_, last.dish) = TablesOf(last.pre.dish_locs, last.dish) + last.ret
          /\ num_customers_ = last.pre.num_customers + 1
          /\ CustomersOf(dish_locs_, last.dish) = CustomersOf(last.pre.dish_locs, last.dish) + 1
    /\ (last.op = "decrement" /\ ~aborted) =>
          /\ last.ret \in {0, -1}
          /\ num_tables_ = last.pre.num_tables + last.ret
          /\ TablesOf(dish_locs_, last.dish) = TablesOf(last.pre.dish_locs, last.dish) + last.ret
          /\ num_customers_ = last.pre.num_customers - 1
          /\ CustomersOf(dish_locs_, last.dish) = CustomersOf(last.pre.dish_locs, last.dish) - 1

C4_Witness ==
    /\ last.op = "increment" /\ last.ret = 0
    /\ num_tables_ = 2 /\ num_customers_ = 3

\* C5: in every live state 0 <= discount < 1 and strength > -discount, given
\* only that each slice sampler call returns a value within its bounds.
C5_HyperparametersValid ==
    Live => /\ 0 <= discount_ /\ discount_ < ONE
            /\ strength_ > -discount_

\* C6: increment of a dish without customers followed at once by decrement of
\* the same dish returns 1 and then -1 and restores num_tables(),
\* num_customers(), the dishes present and every other dish's histogram.
C6_SeatUnseatSymmetry ==
    (last.op = "decrement" /\ last.undo # <<>> /\ ~aborted) =>
        /\ last.undo[1].ret = 1
        /\ last.ret = -1
        /\ Snap = last.undo[1].pre

C6_Witness ==
    /\ last.op = "decrement" /\ last.undo # <<>> /\ ~aborted
    /\ DOMAIN dish_locs_ # {}
    /\ num_tables_ < num_customers_

\* C7: decrement of a dish without seated customers never returns normally.
C7_DecrementAbsentIsFatal ==
    (last.op = "decrement" /\ CustomersOf(last.pre.dish_locs, last.dish) = 0) => aborted

InvalidPair(d, s) == d < 0 \/ d >= ONE \/ s <= -d

\* C8: the constructor, set_hyperparameters, set_discount and set_strength
\* abort exactly when the resulting pair has discount < 0, discount >= 1 or
\* strength <= -discount, the unchanged parameter included.
C8_InvalidHyperparametersAbort ==
    /\ last.op \in {"crp", "set_hyperparameters"} => (aborted <=> InvalidPair(last.a1, last.a2))
    /\ last.op = "set_discount" => (aborted <=> InvalidPair(last.a1, strength_))
    /\ last.op = "set_strength" => (aborted <=> InvalidPair(discount_, last.a1))

C8_Witness ==
    /\ last.op = "set_discount" /\ aborted
    /\ last.a1 = 0 /\ strength_ = -QUARTER
    /\ num_customers_ >= 1

Queries == {"num_tables", "num_customers", "num_tables(dish)", "num_customers(dish)", "prob"}

C10_ProbWellDefined ==
    (last.op = "prob" /\ ~InvalidPair(discount_, strength_)) =>
        LET r == num_tables_ * discount_ + strength_
            c == CustomersOf(dish_locs_, last.dish)
            t == TablesOf(dish_locs_, last.dish)
        IN  /\ num_customers_ * ONE + strength_ # 0
            /\ last.val.den = (num_customers_ * ONE + strength_) * ONE
            /\ last.val.num = (c * ONE - discount_ * t) * ONE + r * last.a1
            /\ last.val.num * last.val.den >= 0

\* C11: with a stream that always shares, the first increment of a dish is
\* forced to open a table (returns 1, draws nothing), every later one returns
\* 0, so k increments on one fresh dish give num_tables() = 1 and
\* num_customers() = k.
C11_AlwaysShare ==
    ~aborted =>
        /\ \A d \in DOMAIN dish_locs_ :
              dish_locs_[d].tables = 1 /\ dish_locs_[d].customers = seated[d]
        /\ num_tables_ = Cardinality(DOMAIN dish_locs_)
        /\ num_customers_ = TotalSeated
        /\ last.op = "increment" =>
              IF last.dish \notin DOMAIN last.pre.dish_locs
              THEN last.ret = 1 /\ ~last.drew
              ELSE last.ret = 0 /\ last.drew
        /\ (last.op = "num_tables" /\ DOMAIN dish_locs_ = {"a"}) => last.ret = 1
        /\ (last.op = "num_customers" /\ DOMAIN dish_locs_ = {"a"}) => last.ret = seated["a"]

C11_Witness ==
    /\ discount_ = HALF /\ strength_ = ONE
    /\ last.op = "increment" /\ last.dish = "a" /\ last.a1 = ONE /\ last.ret = 0
    /\ DOMAIN dish_locs_ = {"a"}
    /\ num_tables_ = 1 /\ num_customers_ = 3

\* C12: with p0 = 1 and a stream that always opens a new table, k increments
\* from the empty restaurant give num_tables() = num_customers() = k, every
\* decrement then returns -1 and closes one table, and after the last one the
\* dish is absent and both counters are 0.
C12_AlwaysNewTable ==
    ~aborted =>
        /\ \A d \in DOMAIN dish_locs_ :
              /\ dish_locs_[d].tables = dish_locs_[d].customers
              /\ dish_locs_[d].customers = seated[d]
        /\ num_tables_ = TotalSeated
        /\ num_customers_ = TotalSeated
        /\ last.op = "increment" => last.ret = 1
        /\ last.op = "decrement" =>
              /\ last.ret = -1
              /\ num_tables_ = last.pre.num_tables - 1
              /\ seated[last.dish] = 0 => last.dish \notin DOMAIN dish_locs_
        /\ TotalSeated = 0 =>
              dish_locs_ = EmptyMap /\ num_tables_ = 0 /\ num_customers_ = 0

C12_Witness ==
    /\ discount_ = HALF /\ strength_ = ONE /\ ~aborted
    /\ last.op = "decrement" /\ last.dish = "a" /\ last.ret = -1
    /\ DOMAIN last.pre.dish_locs = {"a"}
    /\ last.pre.num_tables = 3 /\ last.pre.num_customers = 3
    /\ num_tables_ = 2 /\ num_customers_ = 2

\* C13: with zero customers log_likelihood is exactly the sum of the prior
\* log-densities that are present (Beta of discount, Gamma of strength +
\* discount, nothing when there is no prior) and has no seating term, for the
\* stored hyperparameters and for any pair passed as arguments.
C13_EmptyLikelihoodIsPrior ==
    /\ (last.op = "log_likelihood" /\ last.pre.num_customers = 0 /\ ~aborted) =>
          /\ last.val.prior =
                {t \in {<<"log_beta_density", last.hyper[1]>>,
                        <<"log_gamma_density", last.hyper[2] + last.hyper[1]>>} :
                    \/ t[1] = "log_beta_density" /\ last.priors[1]
                    \/ t[1] = "log_gamma_density" /\ last.priors[2]}
          /\ last.val.base = <<>>
          /\ DOMAIN last.val.dishes = {}
    /\ num_customers_ = 0 =>
          \A d \in HyperArgs \cup SampleValues, s \in HyperArgs \cup SampleValues :
             LET v == log_likelihood(d, s, num_tables_, num_customers_, dish_locs_, Priors)
             IN  /\ (<<"log_beta_density", d>> \in v.prior) = has_discount_prior
                 /\ (<<"log_gamma_density", s + d>> \in v.prior) = has_strength_prior
                 /\ Cardinality(v.prior) <= 2
                 /\ v.base = <<>>
                 /\ DOMAIN v.dishes = {}

C13_Witness ==
    /\ last.op = "log_likelihood" /\ ~aborted
    /\ last.pre.num_customers = 0
    /\ has_discount_prior /\ has_strength_prior
    /\ discount_ = HALF /\ strength_ = ONE
    /\ Cardinality(last.val.prior) = 2

\* C14: resample_hyperparameters with a prior present and no customer changes
\* nothing and never calls the slice sampler; with no prior present it is
\* fatal, whether or not customers are seated.
C14_ResampleNoOpOrFatal ==
    last.op = "resample_hyperparameters" =>
        /\ ((last.priors[1] \/ last.priors[2]) /\ last.pre.num_customers = 0) =>
              /\ ~aborted /\ pc = "idle"
              /\ Hyper = last.hyper
              /\ Snap = last.pre
              /\ last.calls = 0
        /\ ~(last.priors[1] \/ last.priors[2]) => aborted

\* C15: clear() sets both counters to 0 and empties the dish map, leaves
\* discount, strength and the hyperpriors as they were, and the increment
\* that follows behaves as on a freshly constructed restaurant: it opens the
\* first table without drawing and returns 1.
C15_ClearResets ==
    /\ last.op = "clear" =>
          /\ num_tables_ = 0 /\ num_customers_ = 0 /\ dish_locs_ = EmptyMap
          /\ Hyper = last.hyper
          /\ Priors = last.priors
          /\ ~aborted /\ pc = "idle" /\ iter = 0 /\ nloop = 0
    /\ (last.op = "increment" /\ (last.after_clear \/ last.pre.num_customers = 0)) =>
          /\ last.pre = [num_tables |-> 0, num_customers |-> 0, dish_locs |-> EmptyMap]
          /\ last.ret = 1 /\ ~last.drew
          /\ num_tables_ = 1 /\ num_customers_ = 1
          /\ dish_locs_ = (last.dish :> create_table(EmptyManager))

C15_Witness ==
    /\ last.op = "clear"
    /\ last.pre.num_customers = 3 /\ last.pre.num_tables = 2
    /\ Cardinality(DOMAIN last.pre.dish_locs) = 2
    /\ last.hyper = <<HALF, -QUARTER>>
    /\ num_customers_ = 0

NumPriors(priors) == (IF priors[1] THEN 1 ELSE 0) + (IF priors[2] THEN 1 ELSE 0)

\* the position of a resample_hyperparameters run with seated customers fixes
\* the number of slice_sampler1d calls made so far, and the seating is as it
\* was when the run began
ResampleSequence ==
    (last.op = "resample_hyperparameters" /\ last.pre.num_customers > 0 /\ ~aborted) =>
        /\ Snap = last.pre
        /\ pc = "strength" =>
              /\ iter < nloop /\ nloop = last.a1
              /\ last.calls = iter * NumPriors(last.priors)
        /\ pc = "discount" =>
              /\ iter < nloop /\ nloop = last.a1
              /\ last.calls = iter * NumPriors(last.priors)
                              + (IF last.priors[2] THEN 1 ELSE 0)
        /\ pc = "final" =>
              /\ iter = nloop /\ nloop = last.a1
              /\ last.calls = last.a1 * NumPriors(last.priors)
        /\ pc = "idle" =>
              last.calls = last.a1 * NumPriors(last.priors) + 1

\* a step of the loop changes only the hyperparameter it draws: the strength
\* draws hold discount fixed, the discount draw holds the strength fixed
ResampleFrame ==
    /\ (pc \in {"strength", "final"} /\ pc' # pc) =>
          /\ discount_' = discount_
          /\ (pc = "strength" /\ ~has_strength_prior) => strength_' = strength_
    /\ (pc = "discount" /\ pc' # pc) =>
          /\ strength_' = strength_
          /\ ~has_discount_prior => discount_' = discount_

GeneralPathResults ==
    {decrement_general(last.pre.num_tables, last.pre.num_customers, last.pre.dish_locs,
                       last.dish, r) :
        r \in remove_outcomes(last.pre.dish_locs[last.dish])}

LastCustomerRemoved ==
    /\ last.op = "decrement" /\ ~aborted
    /\ CustomersOf(last.pre.dish_locs, last.dish) = 1

\* C18 as stated: for a dish with exactly one customer the shortcut gives the
\* same return value, the same counters and the same per-dish state (the
\* entries of the dish map) as the general path.
C18_ShortcutSameAsGeneral ==
    LastCustomerRemoved =>
        \A g \in GeneralPathResults :
            /\ last.ret = g.ret
            /\ num_tables_ = g.num_tables
            /\ num_customers_ = g.num_customers
            /\ dish_locs_ = g.dish_locs

\* C18 amended: the shortcut gives the same return value, the same counters
\* and the same answers of num_tables(dish), num_customers(dish) and prob as
\* the general path, and differs from it in one thing: it erases the dish
\* entry, which the general path would leave in the map with no customer.
C18_ShortcutSameUpToErase ==
    LastCustomerRemoved =>
        /\ GeneralPathResults # {}
        /\ \A g \in GeneralPathResults :
              /\ last.ret = g.ret /\ last.ret = -1
              /\ num_tables_ = g.num_tables
              /\ num_customers_ = g.num_customers
              /\ \A d \in Dishes :
                    /\ num_tables_dish(dish_locs_, d) = num_tables_dish(g.dish_locs, d)
                    /\ num_customers_dish(dish_locs_, d) = num_customers_dish(g.dish_locs, d)
                    /\ \A p0 \in P0Args :
                          prob(num_tables_, num_customers_, dish_locs_, discount_,
                               strength_, d, p0)
                          = prob(g.num_tables, g.num_customers, g.dish_locs, discount_,
                                 strength_, d, p0)
              /\ last.dish \in DOMAIN g.dish_locs
              /\ g.dish_locs[last.dish] = EmptyManager
              /\ last.dish \notin DOMAIN dish_locs_
              /\ dish_locs_ = Erase(g.dish_locs, last.dish)

C18_Witness ==
    /\ LastCustomerRemoved
    /\ last.ret = -1
    /\ last.pre.num_customers = 3 /\ last.pre.num_tables = 2
    /\ DOMAIN dish_locs_ = Dishes \ {last.dish}
    /\ discount_ = 0

\* C19: in the Dirichlet process case (discount = 0, a customer seated)
\* log_likelihood adds lgamma(strength) + num_tables * log(strength)
\* - lgamma(strength + num_customers) and, for each dish present,
\* lgamma(tables(dish)): the normalising term is taken at the number of
\* customers.
C19_DPNormaliserAtCustomers ==
    (last.op = "log_likelihood" /\ ~aborted /\ last.hyper[1] = 0
        /\ last.pre.num_customers > 0) =>
        /\ last.val.base =
              <<Term(1, "lgamma", last.hyper[2], ONE, 0),
                Term(last.pre.num_tables, "log", last.hyper[2], ONE, 0),
                Term(-1, "lgamma", last.hyper[2], ONE, last.pre.num_customers)>>
        /\ DOMAIN last.val.dishes = DOMAIN last.pre.dish_locs
        /\ \A d \in DOMAIN last.val.dishes :
              last.val.dishes[d] = {Term(1, "lgamma", 0, ONE, last.pre.dish_locs[d].tables)}

\* the two weights increment(dish, p0) hands to sample_bernoulli are valid
ValidWeights(nt, locs, discount, strength, dish, p0) ==
    LET pe == p_empty(nt, discount, strength, p0)
        ps == p_share(locs[dish], discount)
    IN  /\ ps > 0
        /\ pe >= 0
        /\ p0 > 0 => pe > 0
        /\ pe + ps # 0

\* C20: whenever increment draws the share / new-table choice, under valid
\* hyperparameters and p0 >= 0, p_share is positive and p_empty is
\* non-negative (positive when p0 > 0, also for negative strength), so their
\* sum is not zero; with p0 = 0 the increment shares and returns 0.
C20_WeightsValid ==
    /\ (last.op = "increment" /\ last.drew
           /\ ~check_hyperparameters(last.hyper[1], last.hyper[2])) =>
          /\ ValidWeights(last.pre.num_tables, last.pre.dish_locs, last.hyper[1],
                          last.hyper[2], last.dish, last.a1)
          /\ last.a1 = 0 => (last.ret = 0 /\ num_tables_ = last.pre.num_tables)
    /\ ~check_hyperparameters(discount_, strength_) =>
          \A d \in DOMAIN dish_locs_, p0 \in P0Args :
             increment_draws(dish_locs_, d) =>
                /\ ValidWeights(num_tables_, dish_locs_, discount_, strength_, d, p0)
                /\ p0 = 0 => increment_choices(num_tables_, dish_locs_, discount_,
                                               strength_, d, p0) = {TRUE}

C20_Witness ==
    /\ last.op = "increment" /\ last.drew /\ ~aborted
    /\ last.hyper = <<HALF, -QUARTER>>
    /\ last.a1 = ONE /\ last.ret = 1
    /\ num_tables_ = 2 /\ num_customers_ = 2 /\ DOMAIN dish_locs_ = {"a"}

====
